---- MODULE Spec2Model ----
(***************************************************************************)
(* DocYapper (src/app.py): a Streamlit script that loads one document      *)
(* (PDF upload or web URL) into the session state and answers chat turns   *)
(* through a one-node LangGraph graph compiled with an InMemorySaver.      *)
(*                                                                         *)
(* One action of the model is one user interaction with the page: the      *)
(* interaction sets a widget value or a trigger and Streamlit runs the     *)
(* whole script top to bottom (sidebar, Clear Document, New Chat, chat     *)
(* input), following st.rerun() into the next run.                         *)
(***************************************************************************)
EXTENDS Integers, Sequences, FiniteSets, TLC

VARIABLES
    st,          \* st[s]: st.session_state of browser session s
    widgets,     \* widgets[s]: values of the radio, the file uploader and the text input
    uuid,        \* uuid[s]: number of message ids handed out so far in session s
    notice,      \* notice[s]: st.warning / st.error / st.success elements of the last run
    sent,        \* sent[s]: the message list of the last llm.invoke(messages) call
    invocations, \* invocations[s]: number of llm.invoke calls made
    accepted,    \* accepted[s]: number of chat turns that passed the document guard
    constructed, \* constructed[s]: number of turns in which ChatGroq(...) was built
    pending,     \* pending[s]: llm.invoke calls of session s that have not returned yet
    live,        \* the browser sessions that are open
    last,        \* the last interaction: which one, in which session, and what it saw
    fn           \* inputs and outputs of the context-injection step applied on its own

vars ==
    <<st, widgets, uuid, notice, sent, invocations, accepted, constructed, pending, live,
      last, fn>>

-----------------------------------------------------------------------------
(* Bounds of the model *)

MaxTurns == 2        \* accepted chat turns per session
MaxSharedTurns == 1  \* accepted chat turns per session when two sessions are open
ShortLen == 3        \* length of the short documents
Over == 1            \* the long document has CONTEXT_CAP + Over characters
MaxConv == 2         \* length of the conversations the injection step is tried on

(* Program constants *)

CONTEXT_CAP == 4000  \* context_text[:4000]
THREAD_ID == 1       \* {"configurable": {"thread_id": "1"}}

Sessions == {1, 2}
Files == {1, 2, 3}             \* distinct uploads; 0 is the empty uploader / None
Urls == {1, 2}                 \* distinct URLs; 0 is the empty text input / None
Prompts == {1, 2}              \* prompt 2 contains the words "document content"
Replies == {1}

Min(a, b) == IF a < b THEN a ELSE b

\* Body applied to the value of an expression, which is computed once
Let(value, Body(_)) == CHOOSE r \in {Body(v) : v \in {value}} : TRUE

(* Texts.  Every text of the program is what an extractor returned or a      *)
(* prefix of it, so a text is held as its source and its length: the first   *)
(* len characters of what source src contains.  The empty text is one value. *)
Empty == [src |-> 0, len |-> 0]

Chars(src, n) == IF n = 0 THEN Empty ELSE [src |-> src, len |-> n]

-----------------------------------------------------------------------------
(* Messages: langchain_core BaseMessage subclasses.  type is the class,      *)
(* id is BaseMessage.id (0 is None), content is the text: its kind, a body,  *)
(* the embedded document snippet, and whether the text contains the words    *)
(* "document content".                                                       *)

Content(kind, body, snippet, marker) ==
    [kind |-> kind, body |-> body, snippet |-> snippet, marker |-> marker]

HumanMessage(prompt) ==
    [type |-> "human", id |-> 0, content |-> Content("prompt", prompt, Empty, prompt = 2)]

AIMessage(content, id) == [type |-> "ai", id |-> id, content |-> content]

SystemMessage(content) == [type |-> "system", id |-> 0, content |-> content]

\* Faulty variant of SliceTo: the whole text, no cap
SliceTo_whole(s, stop) == s

\* Python's s[:stop] for stop >= 0
SliceTo(s, stop) == Chars(s.src, Min(stop, s.len))

\* The f-string of lines 119-125: the instruction template around the snippet.
Template(context_snippet) == Content("template", 0, context_snippet, TRUE)

\* f"Error: {str(e)}"
ErrorText(e) == Content("error", e, Empty, FALSE)

IsContextMessage(m) == m.type = "system" /\ m.content.marker

-----------------------------------------------------------------------------
(* langgraph add_messages: ids are given to messages that have none, a right *)
(* message whose id is in left replaces it in place, any other is appended.  *)

RECURSIVE AssignIds(_, _)
AssignIds(msgs, next) ==
    IF msgs = <<>> THEN <<>>
    ELSE IF Head(msgs).id = 0
         THEN <<[Head(msgs) EXCEPT !.id = next + 1]>> \o AssignIds(Tail(msgs), next + 1)
         ELSE <<Head(msgs)>> \o AssignIds(Tail(msgs), next)

Missing(msgs) == Cardinality({i \in 1..Len(msgs) : msgs[i].id = 0})

RECURSIVE Merge(_, _, _)
Merge(left, merged, right) ==
    IF right = <<>> THEN merged
    ELSE LET m == Head(right)
             hit == {i \in 1..Len(left) : left[i].id = m.id}
         IN  IF hit # {}
             THEN Merge(left, [merged EXCEPT ![CHOOSE i \in hit : \A j \in hit : j <= i] = m],
                        Tail(right))
             ELSE Merge(left, Append(merged, m), Tail(right))

add_messages(left, right, next) ==
    [messages |-> Merge(left, left, AssignIds(right, next)),
     next |-> next + Missing(right)]

-----------------------------------------------------------------------------
(* agent_node, lines 105-127: the context-injection step on the message list *)

\* Faulty variant of has_context: an earlier injection is not recognised
has_context_never(messages) == FALSE

has_context(messages) == \E i \in 1..Len(messages) : IsContextMessage(messages[i])

\* Faulty variant of insert0: the message goes to the end of the list
insert_last(messages, m) == Append(messages, m)

insert0(messages, m) == <<m>> \o messages

ensureContext(messages, context_text) ==
    IF context_text # Empty /\ messages # <<>>
    THEN IF ~has_context(messages)
         THEN insert0(messages, SystemMessage(Template(SliceTo(context_text, CONTEXT_CAP))))
         ELSE messages
    ELSE messages

\* Faulty variant of agent_node: no try/except, an exception leaves the node
agent_node_uncaught(state_messages, context_text, llm, next) ==
    IF llm.outcome = "reply"
    THEN [raised |-> FALSE,
          messages |-> <<AIMessage(Content("reply", llm.reply, Empty, FALSE), next + 1)>>,
          built |-> TRUE, calls |-> 1,
          sent |-> ensureContext(state_messages, context_text), next |-> next + 1]
    ELSE [raised |-> TRUE, messages |-> <<>>, built |-> llm.outcome = "invoke_raises",
          calls |-> IF llm.outcome = "invoke_raises" THEN 1 ELSE 0,
          sent |-> ensureContext(state_messages, context_text), next |-> next]

\* Faulty variant of agent_node: a failed llm.invoke is tried a second time
agent_node_retry(state_messages, context_text, llm, next) ==
    IF llm.outcome = "client_raises"
    THEN [raised |-> FALSE, messages |-> <<AIMessage(ErrorText(1), 0)>>,
          built |-> FALSE, calls |-> 0, sent |-> <<>>, next |-> next]
    ELSE IF llm.outcome = "invoke_raises"
    THEN [raised |-> FALSE, messages |-> <<AIMessage(ErrorText(2), 0)>>,
          built |-> TRUE, calls |-> 2,
          sent |-> ensureContext(state_messages, context_text), next |-> next]
    ELSE [raised |-> FALSE,
          messages |-> <<AIMessage(Content("reply", llm.reply, Empty, FALSE), next + 1)>>,
          built |-> TRUE, calls |-> 1,
          sent |-> ensureContext(state_messages, context_text), next |-> next + 1]

\* Faulty variant of agent_node: the model is called with the state's messages as they are
agent_node_bare(state_messages, context_text, llm, next) ==
    IF llm.outcome = "client_raises"
    THEN [raised |-> FALSE, messages |-> <<AIMessage(ErrorText(1), 0)>>,
          built |-> FALSE, calls |-> 0, sent |-> <<>>, next |-> next]
    ELSE IF llm.outcome = "invoke_raises"
    THEN [raised |-> FALSE, messages |-> <<AIMessage(ErrorText(2), 0)>>,
          built |-> TRUE, calls |-> 1, sent |-> state_messages, next |-> next]
    ELSE [raised |-> FALSE,
          messages |-> <<AIMessage(Content("reply", llm.reply, Empty, FALSE), next + 1)>>,
          built |-> TRUE, calls |-> 1, sent |-> state_messages, next |-> next + 1]

(* agent_node, lines 95-136.  llm is what the provider does in this turn:    *)
(* "client_raises" (ChatGroq(...) or st.secrets raises), "invoke_raises"     *)
(* (llm.invoke raises) or "reply".  The result is the node's return value    *)
(* (or raised, were an exception to leave the node) with the calls it made.  *)
agent_node(state_messages, context_text, llm, next) ==
    IF llm.outcome = "client_raises"
    THEN [raised |-> FALSE, messages |-> <<AIMessage(ErrorText(1), 0)>>,
          built |-> FALSE, calls |-> 0, sent |-> <<>>, next |-> next]
    ELSE LET messages == ensureContext(state_messages, context_text)
         IN  IF llm.outcome = "invoke_raises"
             THEN [raised |-> FALSE, messages |-> <<AIMessage(ErrorText(2), 0)>>,
                   built |-> TRUE, calls |-> 1, sent |-> messages, next |-> next]
             ELSE [raised |-> FALSE,
                   messages |-> <<AIMessage(Content("reply", llm.reply, Empty, FALSE), next + 1)>>,
                   built |-> TRUE, calls |-> 1, sent |-> messages, next |-> next + 1]

(* build_graph and graph.invoke: entry point agent, edge agent -> END, state *)
(* channel messages reduced by add_messages and saved by the InMemorySaver   *)
(* under the thread id of the config.                                        *)
build_graph == [t \in {THREAD_ID} |-> <<>>]

graph_invoke(graph, input, config, context_text, llm, next) ==
    Let(add_messages(graph[config], input, next), LAMBDA in :
    Let(agent_node(in.messages, context_text, llm, in.next), LAMBDA node :
        IF node.raised
        THEN [raised |-> TRUE, graph |-> [graph EXCEPT ![config] = in.messages],
              messages |-> <<>>, built |-> node.built, calls |-> node.calls,
              sent |-> node.sent, next |-> node.next]
        ELSE Let(add_messages(in.messages, node.messages, node.next), LAMBDA out :
             [raised |-> FALSE, graph |-> [graph EXCEPT ![config] = out.messages],
              messages |-> out.messages, built |-> node.built, calls |-> node.calls,
              sent |-> node.sent, next |-> out.next])))

-----------------------------------------------------------------------------
(* The session state, lines 11-28 and 224-226 *)

SessionInit ==
    [uploaded_pdf |-> 0, web_url |-> 0, chat_messages |-> <<>>, config |-> THREAD_ID,
     documents_processed |-> FALSE, extracted_text |-> Empty, graph |-> build_graph]

WidgetsInit == [doc_type |-> "PDF Upload", uploaded_pdf |-> 0, web_url |-> 0]

(* The two extraction collaborators.  What a file or a page contains is the  *)
(* environment's: upload 2 has no extractable text, upload 3 is longer than  *)
(* the cap, page 1 is exactly as long as the cap.                            *)
PdfPages(f) ==
    CASE f = 1 -> Chars(1, ShortLen)
      [] f = 2 -> Empty
      [] OTHER -> Chars(3, CONTEXT_CAP + Over)

WebPage(u) == IF u = 1 THEN Chars(4, CONTEXT_CAP) ELSE Chars(5, ShortLen)

extract_pdf_text(ss) == IF ss.uploaded_pdf = 0 THEN Empty ELSE PdfPages(ss.uploaded_pdf)

\* http_ok: requests.get and raise_for_status() return without an exception
extract_web_text(ss, http_ok) ==
    IF ss.web_url = 0 THEN Empty
    ELSE IF http_ok THEN WebPage(ss.web_url) ELSE Empty

-----------------------------------------------------------------------------
(* Sidebar, lines 155-195.  Each operator gives the session state after the  *)
(* block, the notices it showed, and what happened to the document:          *)
(* "loaded", "empty" (an extraction attempt gave no text) or "idle".         *)
(* A chat turn is "rejected", "answered" (the graph returned its messages)   *)
(* or "propagated" (graph.invoke raised into the handler's except).          *)

\* Faulty variant of reset_source: the conversation survives the change of source
reset_source_keep_chat(ss, pdf, url) ==
    [ss EXCEPT !.uploaded_pdf = pdf, !.web_url = url, !.documents_processed = FALSE,
               !.extracted_text = Empty]

\* lines 160-164 and 181-185
reset_source(ss, pdf, url) ==
    [ss EXCEPT !.uploaded_pdf = pdf, !.web_url = url, !.documents_processed = FALSE,
               !.chat_messages = <<>>, !.extracted_text = Empty]

\* Faulty variant of store_text: the document is marked processed whatever was extracted
store_text_always(ss, text, switched) ==
    [ss |-> [ss EXCEPT !.extracted_text = text, !.documents_processed = TRUE],
     notes |-> {"success"}, doc |-> IF text # Empty THEN "loaded" ELSE "empty",
     switched |-> switched]

\* lines 169-174 and 190-195
store_text(ss, text, switched) ==
    IF text # Empty
    THEN [ss |-> [ss EXCEPT !.extracted_text = text, !.documents_processed = TRUE],
          notes |-> {"success"}, doc |-> "loaded", switched |-> switched]
    ELSE [ss |-> ss, notes |-> {"error"}, doc |-> "empty", switched |-> switched]

\* lines 159-174 and 180-195, after the source of this run is known to be set
load_source(ss, switched, pdf, url, http_ok) ==
    Let(IF switched THEN reset_source(ss, pdf, url) ELSE ss, LAMBDA s1 :
        IF ~s1.documents_processed
        THEN store_text(s1, IF pdf # 0 THEN extract_pdf_text(s1)
                                       ELSE extract_web_text(s1, http_ok), switched)
        ELSE [ss |-> s1, notes |-> {}, doc |-> "idle", switched |-> switched])

pdf_branch(ss, uploaded_pdf) ==
    IF uploaded_pdf # 0
    THEN load_source(ss, ss.uploaded_pdf # uploaded_pdf, uploaded_pdf, 0, FALSE)
    ELSE [ss |-> ss, notes |-> {}, doc |-> "idle", switched |-> FALSE]

url_branch(ss, web_url, load_clicked, http_ok) ==
    IF web_url # 0 /\ load_clicked
    THEN load_source(ss, ss.web_url # web_url, 0, web_url, http_ok)
    ELSE [ss |-> ss, notes |-> {}, doc |-> "idle", switched |-> FALSE]

sidebar(ss, w, load_clicked, http_ok) ==
    IF w.doc_type = "PDF Upload"
    THEN pdf_branch(ss, w.uploaded_pdf)
    ELSE url_branch(ss, w.web_url, load_clicked, http_ok)

\* Faulty variant of clear_document: the processed flag is left as it was
clear_document_keeps_flag(ss) ==
    [ss EXCEPT !.uploaded_pdf = 0, !.web_url = 0, !.chat_messages = <<>>,
               !.extracted_text = Empty]

\* Clear Document, lines 200-205
clear_document(ss) ==
    [ss EXCEPT !.uploaded_pdf = 0, !.web_url = 0, !.documents_processed = FALSE,
               !.chat_messages = <<>>, !.extracted_text = Empty]

\* Faulty variant of new_chat: the stored text goes with the conversation
new_chat_drops_text(ss) ==
    [ss EXCEPT !.chat_messages = <<>>, !.extracted_text = Empty,
               !.documents_processed = FALSE]

\* New Chat, lines 209-210
new_chat(ss) == [ss EXCEPT !.chat_messages = <<>>]

\* Chat display loop, lines 232-239: the messages that get a bubble
displayed(chat_messages) ==
    SelectSeq(chat_messages,
              LAMBDA m : \/ m.type = "human"
                         \/ m.type = "system" /\ ~m.content.marker
                         \/ m.type = "ai")

-----------------------------------------------------------------------------
(* Chat input, lines 242-278 *)

\* Faulty variant of begin_turn: the prompt is not recorded
begin_turn_unrecorded(ss, prompt) == ss

\* lines 251-252: the prompt joins the conversation before the graph is invoked
begin_turn(ss, prompt) ==
    [ss EXCEPT !.chat_messages = Append(ss.chat_messages, HumanMessage(prompt))]

\* lines 255-278: graph.invoke on the conversation and what is done with its result
finish_turn(ss, llm, next) ==
    Let(ss, LAMBDA appended :
    Let(graph_invoke(appended.graph, appended.chat_messages, appended.config,
                     appended.extracted_text, llm, next), LAMBDA result :
        IF result.raised
        THEN [ss |-> [appended EXCEPT !.graph = result.graph],
              notes |-> {"error"}, turn |-> "propagated", rerun |-> TRUE,
              built |-> result.built, calls |-> result.calls,
              sent |-> result.sent, next |-> result.next]
        ELSE [ss |-> [appended EXCEPT !.graph = result.graph,
                                      !.chat_messages = result.messages],
              notes |-> {}, turn |-> "answered", rerun |-> TRUE,
              built |-> result.built, calls |-> result.calls,
              sent |-> result.sent, next |-> result.next]))

\* lines 246-278: the turn of a prompt that passed the guard
run_turn(ss, prompt, llm, next) == finish_turn(begin_turn(ss, prompt), llm, next)

\* Faulty variant of chat_input: no guard on the stored text
chat_input_unguarded(ss, prompt, llm, next) == run_turn(ss, prompt, llm, next)

chat_input(ss, prompt, llm, next) ==
    IF ss.extracted_text = Empty
    THEN [ss |-> ss, notes |-> {"warning"}, turn |-> "rejected", rerun |-> FALSE,
          built |-> FALSE, calls |-> 0, sent |-> <<>>, next |-> next]
    ELSE run_turn(ss, prompt, llm, next)

-----------------------------------------------------------------------------
(* One run of the script for one interaction.  trigger.kind is the widget    *)
(* that fired: "none" (a value changed), "load", "clear", "new" or "chat".   *)
(* st.rerun() abandons the run and starts one in which no trigger is set.    *)

rerun(ss, w) == sidebar(ss, w, FALSE, FALSE)

NoTurn(side, next) ==
    Let(side, LAMBDA r :
    [ss |-> r.ss, notes |-> r.notes, doc |-> r.doc, switched |-> r.switched,
     turn |-> "none", built |-> FALSE, calls |-> 0, sent |-> <<>>, next |-> next])

script(ss, w, trigger, env, next) ==
    Let(sidebar(ss, w, trigger.kind = "load", env.http_ok), LAMBDA side :
        IF side.ss.extracted_text # Empty /\ trigger.kind = "clear"
        THEN NoTurn(rerun(clear_document(side.ss), w), next)
        ELSE IF trigger.kind = "new"
        THEN NoTurn(rerun(new_chat(side.ss), w), next)
        ELSE IF trigger.kind = "chat"
        THEN Let(chat_input(side.ss, trigger.prompt, env.llm, next), LAMBDA c :
                 IF c.rerun
                 THEN Let(rerun(c.ss, w), LAMBDA again :
                      [ss |-> again.ss, notes |-> again.notes, doc |-> again.doc,
                       switched |-> again.switched, turn |-> c.turn, built |-> c.built,
                       calls |-> c.calls, sent |-> c.sent, next |-> c.next])
                 ELSE [ss |-> c.ss, notes |-> side.notes \cup c.notes, doc |-> side.doc,
                       switched |-> side.switched, turn |-> c.turn, built |-> c.built,
                       calls |-> c.calls, sent |-> c.sent, next |-> c.next])
        ELSE NoTurn(side, next))

-----------------------------------------------------------------------------
(* The state machine *)

FnOff == [phase |-> "off", C |-> <<>>, D |-> Empty, once |-> <<>>, twice |-> <<>>]

LastInit ==
    [op |-> "init", session |-> 1, turn |-> "none", doc |-> "idle", switched |-> FALSE,
     prompt |-> 0, provider |-> "reply", chat_before |-> <<>>, ready_before |-> FALSE,
     invocations_before |-> 0]

Start(open) ==
    /\ st = [s \in Sessions |-> SessionInit]
    /\ widgets = [s \in Sessions |-> WidgetsInit]
    /\ uuid = [s \in Sessions |-> 0]
    /\ notice = [s \in Sessions |-> {}]
    /\ sent = [s \in Sessions |-> <<>>]
    /\ invocations = [s \in Sessions |-> 0]
    /\ accepted = [s \in Sessions |-> 0]
    /\ constructed = [s \in Sessions |-> 0]
    /\ pending = [s \in Sessions |-> 0]
    /\ live = open
    /\ last = LastInit

Init == Start({1}) /\ fn = FnOff

(* What a finished run leaves besides the session state: the widget values, *)
(* the ids handed out, the notices on the page, and the record of the calls. *)
RunEffects(s, op, w, trigger, env, run) ==
    /\ widgets' = [widgets EXCEPT ![s] = w]
    /\ uuid' = [uuid EXCEPT ![s] = run.next]
    /\ notice' = [notice EXCEPT ![s] = run.notes]
    /\ sent' = [sent EXCEPT ![s] = IF run.calls > 0 THEN run.sent ELSE @]
    /\ invocations' = [invocations EXCEPT ![s] = @ + run.calls]
    /\ constructed' = [constructed EXCEPT ![s] = IF run.built THEN @ + 1 ELSE @]
    /\ accepted' = [accepted EXCEPT
                      ![s] = IF run.turn \in {"none", "rejected"} THEN @ ELSE @ + 1]
    /\ last' = [op |-> op, session |-> s, turn |-> run.turn, doc |-> run.doc,
                switched |-> run.switched, prompt |-> trigger.prompt,
                provider |-> env.llm.outcome,
                chat_before |-> st[s].chat_messages,
                ready_before |-> st[s].documents_processed,
                invocations_before |-> invocations[s]]
    /\ UNCHANGED <<pending, live, fn>>

(* Faulty variant of Interact: one graph, built once, serves every session,  *)
(* and every session saves under the same thread id.                         *)
Interact_shared_graph(s, op, w, trigger, env) ==
    \E run \in {script(st[s], w, trigger, env, uuid[s])} :
        /\ s \in live
        /\ fn.phase = "off"
        /\ pending[s] = 0
        /\ st' = [t \in Sessions |->
                     IF t = s THEN run.ss ELSE [st[t] EXCEPT !.graph = run.ss.graph]]
        /\ RunEffects(s, op, w, trigger, env, run)

(* Faulty variant of Interact: an interaction is handled at once, also while *)
(* a run of the session waits in llm.invoke.                                 *)
Interact_reentrant(s, op, w, trigger, env) ==
    \E run \in {script(st[s], w, trigger, env, uuid[s])} :
        /\ s \in live
        /\ fn.phase = "off"
        /\ st' = [st EXCEPT ![s] = run.ss]
        /\ RunEffects(s, op, w, trigger, env, run)

(* The interaction op in session s: widget values w, trigger and environment. *)
(* The script of a session is one thread of control: an interaction is taken *)
(* up when no run of the session is waiting in llm.invoke.                   *)
Interact(s, op, w, trigger, env) ==
    \E run \in {script(st[s], w, trigger, env, uuid[s])} :
        /\ s \in live
        /\ fn.phase = "off"
        /\ pending[s] = 0
        /\ st' = [st EXCEPT ![s] = run.ss]
        /\ RunEffects(s, op, w, trigger, env, run)

Quiet == [http_ok |-> FALSE, llm |-> [outcome |-> "reply", reply |-> 1]]

NoTrigger == [kind |-> "none", prompt |-> 0]

\* st.radio: the widget of the other source is no longer rendered and loses its value
SelectSource(s, t) ==
    /\ t # widgets[s].doc_type
    /\ Interact(s, "select", [doc_type |-> t, uploaded_pdf |-> 0, web_url |-> 0],
                NoTrigger, Quiet)

\* st.file_uploader: a new upload f, or the removal of the upload (f = 0)
Upload(s, f) ==
    /\ widgets[s].doc_type = "PDF Upload"
    /\ f # widgets[s].uploaded_pdf
    /\ f # 0 => f # st[s].uploaded_pdf
    /\ Interact(s, "upload", [widgets[s] EXCEPT !.uploaded_pdf = f], NoTrigger, Quiet)

\* st.text_input
EnterUrl(s, u) ==
    /\ widgets[s].doc_type = "Web URL"
    /\ u # widgets[s].web_url
    /\ Interact(s, "enter_url", [widgets[s] EXCEPT !.web_url = u], NoTrigger, Quiet)

\* st.button("Load URL"), rendered when the text input is not empty
LoadUrl(s, http_ok) ==
    /\ widgets[s].doc_type = "Web URL"
    /\ widgets[s].web_url # 0
    /\ Interact(s, "load_url", widgets[s], [kind |-> "load", prompt |-> 0],
                [Quiet EXCEPT !.http_ok = http_ok])

\* st.button("Clear Document"), rendered when a text is stored
ClearDocument(s) ==
    /\ st[s].extracted_text # Empty
    /\ Interact(s, "clear", widgets[s], [kind |-> "clear", prompt |-> 0], Quiet)

\* st.button("New Chat")
NewChat(s) == Interact(s, "new_chat", widgets[s], [kind |-> "new", prompt |-> 0], Quiet)

\* st.chat_input
Submit(s, prompt, llm) ==
    /\ st[s].extracted_text = Empty \/ accepted[s] < MaxTurns
    /\ Interact(s, "submit", widgets[s], [kind |-> "chat", prompt |-> prompt],
                [Quiet EXCEPT !.llm = llm])

Providers ==
    {[outcome |-> o, reply |-> r] : o \in {"reply", "invoke_raises", "client_raises"},
                                    r \in Replies}

Next ==
    \/ \E s \in Sessions, t \in {"PDF Upload", "Web URL"} : SelectSource(s, t)
    \/ \E s \in Sessions, f \in Files \cup {0} : Upload(s, f)
    \/ \E s \in Sessions, u \in Urls \cup {0} : EnterUrl(s, u)
    \/ \E s \in Sessions, http_ok \in BOOLEAN : LoadUrl(s, http_ok)
    \/ \E s \in Sessions : ClearDocument(s)
    \/ \E s \in Sessions : NewChat(s)
    \/ \E s \in Sessions, prompt \in Prompts, llm \in Providers : Submit(s, prompt, llm)

Spec == Init /\ [][Next]_vars

-----------------------------------------------------------------------------
(* The chat turn in two steps.  BeginTurn is the run up to graph.invoke: the *)
(* guard passed and the prompt was appended (lines 242-255).  The run then   *)
(* waits for the provider; EndTurn is the provider returning or raising and  *)
(* the rest of the run (lines 130-136, 262-278).                             *)

BeginTurn(s, prompt) ==
    \E side \in {sidebar(st[s], widgets[s], FALSE, FALSE)} :
        /\ s \in live
        /\ fn.phase = "off"
        /\ pending[s] = 0
        /\ side.ss.extracted_text # Empty
        /\ accepted[s] < MaxTurns
        /\ st' = [st EXCEPT ![s] = begin_turn(side.ss, prompt)]
        /\ accepted' = [accepted EXCEPT ![s] = @ + 1]
        /\ pending' = [pending EXCEPT ![s] = @ + 1]
        /\ notice' = [notice EXCEPT ![s] = side.notes]
        /\ last' = [op |-> "begin_turn", session |-> s, turn |-> "awaiting",
                    doc |-> side.doc, switched |-> side.switched, prompt |-> prompt,
                    provider |-> "reply", chat_before |-> st[s].chat_messages,
                    ready_before |-> st[s].documents_processed,
                    invocations_before |-> invocations[s]]
        /\ UNCHANGED <<widgets, uuid, sent, invocations, constructed, live, fn>>

EndTurn(s, llm) ==
    /\ pending[s] > 0
    /\ \E c \in {finish_turn(st[s], llm, uuid[s])} :
       \E again \in {rerun(c.ss, widgets[s])} :
           /\ st' = [st EXCEPT ![s] = again.ss]
           /\ uuid' = [uuid EXCEPT ![s] = c.next]
           /\ notice' = [notice EXCEPT ![s] = again.notes]
           /\ sent' = [sent EXCEPT ![s] = IF c.calls > 0 THEN c.sent ELSE @]
           /\ invocations' = [invocations EXCEPT ![s] = @ + c.calls]
           /\ constructed' = [constructed EXCEPT ![s] = IF c.built THEN @ + 1 ELSE @]
           /\ pending' = [pending EXCEPT ![s] = @ - 1]
           /\ last' = [last EXCEPT !.op = "submit", !.session = s, !.turn = c.turn,
                                   !.provider = llm.outcome, !.doc = again.doc,
                                   !.switched = again.switched]
    /\ UNCHANGED <<widgets, accepted, live, fn>>

TurnNext ==
    \/ \E s \in Sessions, t \in {"PDF Upload", "Web URL"} : SelectSource(s, t)
    \/ \E s \in Sessions, f \in Files \cup {0} : Upload(s, f)
    \/ \E s \in Sessions, u \in Urls \cup {0} : EnterUrl(s, u)
    \/ \E s \in Sessions, http_ok \in BOOLEAN : LoadUrl(s, http_ok)
    \/ \E s \in Sessions : ClearDocument(s)
    \/ \E s \in Sessions : NewChat(s)
    \/ \E s \in Sessions, prompt \in Prompts :
          st[s].extracted_text = Empty /\ Submit(s, prompt, Quiet.llm)
    \/ \E s \in Sessions, prompt \in Prompts : BeginTurn(s, prompt)
    \/ \E s \in Sessions, llm \in Providers : EndTurn(s, llm)

TurnSpec == Init /\ [][TurnNext]_vars

\* llm.invoke returns or raises in the end
TurnFairSpec == TurnSpec /\ \A s \in Sessions : WF_vars(\E llm \in Providers : EndTurn(s, llm))

-----------------------------------------------------------------------------
(* The context-injection step on its own: a conversation C and a document    *)
(* text D are drawn, the step is applied to C and then to its own result.    *)

SampleMessages ==
    {[HumanMessage(1) EXCEPT !.id = 1],
     [HumanMessage(2) EXCEPT !.id = 2],
     AIMessage(Content("reply", 1, Empty, FALSE), 3),
     SystemMessage(Template(Chars(1, ShortLen))),
     SystemMessage(Content("prompt", 1, Empty, FALSE))}

Conversations == UNION {[1..n -> SampleMessages] : n \in 0..MaxConv}

Documents == {Empty} \cup {PdfPages(f) : f \in Files} \cup {WebPage(u) : u \in Urls}

InjectInit ==
    /\ Start({})
    /\ fn \in [phase : {"input"}, C : Conversations, D : Documents,
                once : {<<>>}, twice : {<<>>}]

Inject ==
    /\ fn.phase = "input"
    /\ fn' = [fn EXCEPT !.phase = "once", !.once = ensureContext(fn.C, fn.D)]
    /\ UNCHANGED <<st, widgets, uuid, notice, sent, invocations, accepted, constructed,
                   pending, live, last>>

Reinject ==
    /\ fn.phase = "once"
    /\ fn' = [fn EXCEPT !.phase = "twice", !.twice = ensureContext(fn.once, fn.D)]
    /\ UNCHANGED <<st, widgets, uuid, notice, sent, invocations, accepted, constructed,
                   pending, live, last>>

InjectNext == Inject \/ Reinject

InjectSpec == InjectInit /\ [][InjectNext]_vars

-----------------------------------------------------------------------------
(* Properties *)

ContextCount(msgs) == Cardinality({i \in 1..Len(msgs) : IsContextMessage(msgs[i])})

IsPrefix(a, b) == a = Empty \/ (a.src = b.src /\ a.len <= b.len)

IsErrorReply(m) == m.type = "ai" /\ m.content.kind = "error"

Turn(s) == last.op = "submit" /\ last.session = s

\* The turn of session s reached llm.invoke
Called(s) == Turn(s) /\ invocations[s] > last.invocations_before

\* What the source selected in the widgets of session s contains
SelectedText(s) ==
    IF widgets[s].doc_type = "PDF Upload"
    THEN PdfPages(widgets[s].uploaded_pdf)
    ELSE WebPage(widgets[s].web_url)

(* C1  Turn rejection: a message submitted while no document is ready is    *)
(* rejected: the conversation is what it was before, no model call is made,  *)
(* and the "load a document first" warning is shown.                         *)
C1_TurnRejection ==
    \A s \in Sessions :
        (Turn(s) /\ ~last.ready_before) =>
            /\ last.turn = "rejected"
            /\ st[s].chat_messages = last.chat_before
            /\ invocations[s] = last.invocations_before
            /\ "warning" \in notice[s]

C1_Witness == last.op = "submit" /\ ~last.ready_before /\ last.turn = "rejected"

(* C2  Failure containment: when the provider raises in a turn on a ready    *)
(* document, the exception does not leave the graph; the conversation ends   *)
(* with the turn's user message followed by an assistant message carrying    *)
(* the error text, the document stays ready, and a turn submitted after a    *)
(* failed one is accepted.                                                   *)
C2_FailureContainment ==
    \A s \in Sessions :
        /\ (Turn(s) /\ last.ready_before /\ last.provider # "reply") =>
              LET c == st[s].chat_messages
                  n == Len(c)
              IN  /\ last.turn = "answered"
                  /\ n >= 2
                  /\ IsErrorReply(c[n])
                  /\ c[n - 1].type = "human"
                  /\ c[n - 1].content.body = last.prompt
                  /\ st[s].documents_processed
                  /\ st[s].extracted_text # Empty
        /\ (/\ Turn(s)
            /\ last.chat_before # <<>>
            /\ IsErrorReply(last.chat_before[Len(last.chat_before)]))
              => last.turn = "answered"

C2_Witness ==
    /\ last.op = "submit"
    /\ last.provider = "invoke_raises"
    /\ last.turn = "answered"
    /\ last.chat_before # <<>>
    /\ IsErrorReply(last.chat_before[Len(last.chat_before)])

(* C3  Document switch: loading a new source whose extracted text is not     *)
(* empty leaves an empty conversation, the new text stored, and the document *)
(* ready, whatever the conversation was.                                     *)
C3_SwitchResets ==
    \A s \in Sessions :
        (/\ last.session = s
         /\ last.op \in {"upload", "load_url"}
         /\ last.switched
         /\ last.doc = "loaded") =>
            /\ st[s].chat_messages = <<>>
            /\ st[s].documents_processed
            /\ st[s].extracted_text # Empty
            /\ st[s].extracted_text = SelectedText(s)

C3_Witness ==
    /\ last.op \in {"upload", "load_url"}
    /\ last.switched
    /\ last.doc = "loaded"
    /\ last.chat_before # <<>>

(* C4, as claimed  Every accepted turn calls the model exactly once and a    *)
(* rejected turn never, so the calls made equal the turns accepted.          *)
C4_OneCallPerAcceptedTurn == \A s \in Sessions : invocations[s] = accepted[s]

(* C4, amended  A turn calls the model at most once: exactly once when the   *)
(* client was built (whether the call then returns or raises), never when    *)
(* the turn was rejected or building the client raised; the calls made equal *)
(* the turns in which the client was built.                                  *)
C4_OneCallPerBuiltClient ==
    \A s \in Sessions :
        /\ invocations[s] = constructed[s]
        /\ invocations[s] <= accepted[s]
        /\ Turn(s) =>
              invocations[s] - last.invocations_before =
                  IF last.turn = "rejected" \/ last.provider = "client_raises" THEN 0 ELSE 1

C4_Witness ==
    /\ last.op = "submit"
    /\ last.turn = "answered"
    /\ last.provider = "invoke_raises"
    /\ invocations[last.session] = last.invocations_before + 1
    /\ invocations[last.session] < accepted[last.session]

(* C5  The list handed to llm.invoke starts with the context message, which  *)
(* embeds the stored text of the active document up to the cap; no other     *)
(* element is a system message; the last element is the turn's user message. *)
C5_CallShape ==
    \A s \in Sessions :
        Called(s) =>
            LET m == sent[s]
                n == Len(m)
            IN  /\ n >= 2
                /\ IsContextMessage(m[1])
                /\ m[1].content.kind = "template"
                /\ m[1].content.snippet # Empty
                /\ IsPrefix(m[1].content.snippet, st[s].extracted_text)
                /\ m[1].content.snippet.len = Min(st[s].extracted_text.len, CONTEXT_CAP)
                /\ \A i \in 2..n : m[i].type # "system"
                /\ m[n].type = "human"
                /\ m[n].content.body = last.prompt
                /\ \A j \in 1..Len(last.chat_before) : last.chat_before[j].id # m[n].id

C5_Witness ==
    /\ Called(last.session)
    /\ last.chat_before = <<>>
    /\ Len(sent[last.session]) > 2

(* C6  After two accepted turns in a row on the same document the            *)
(* conversation holds exactly one context message.                           *)
C6_OneContextAfterTwoTurns ==
    \A s \in Sessions :
        (Turn(s) /\ last.turn = "answered" /\ last.chat_before # <<>>) =>
            ContextCount(st[s].chat_messages) = 1

(* C7  The conversation and the list handed to the model hold at most one    *)
(* context message, and a context message is the first element.              *)
AtMostOneAtFront(msgs) ==
    /\ ContextCount(msgs) <= 1
    /\ \A i \in 1..Len(msgs) : IsContextMessage(msgs[i]) => i = 1

C7_ContextPlacement ==
    \A s \in Sessions :
        /\ AtMostOneAtFront(st[s].chat_messages)
        /\ AtMostOneAtFront(sent[s])

C7_Witness ==
    \E s \in Sessions :
        /\ Len(sent[s]) >= 4
        /\ IsContextMessage(sent[s][1])
        /\ st[s].chat_messages # <<>>

(* C8  Injecting the context twice gives what injecting it once gives, and   *)
(* with an empty document text the conversation comes back unchanged.        *)
C8_InjectionIdempotent ==
    /\ fn.phase = "twice" => fn.twice = fn.once
    /\ (fn.phase \in {"once", "twice"} /\ fn.D = Empty) => fn.once = fn.C

C8_Witness == fn.phase = "twice" /\ fn.once # fn.C

(* C9  The snippet of an injected context message is the first               *)
(* min(len(D), 4000) characters of D: 4000 characters of a longer text, the  *)
(* whole text otherwise.                                                     *)
C9_TruncationBound ==
    (fn.phase \in {"once", "twice"} /\ fn.once # fn.C) =>
        LET snippet == fn.once[1].content.snippet
        IN  /\ IsPrefix(snippet, fn.D)
            /\ fn.D.len > CONTEXT_CAP => snippet.len = CONTEXT_CAP
            /\ fn.D.len <= CONTEXT_CAP => snippet = fn.D

C9_Witness == fn.phase = "once" /\ fn.once # fn.C /\ fn.D.len > CONTEXT_CAP

(* C10, as claimed  A load attempt that extracts no text leaves the          *)
(* conversation as it was before the attempt and the document not ready.     *)
C10_EmptyLoadKeepsConversation ==
    \A s \in Sessions :
        (last.session = s /\ last.doc = "empty") =>
            /\ st[s].chat_messages = last.chat_before
            /\ ~st[s].documents_processed

(* C10, amended  After a load attempt that extracts no text the document is  *)
(* not ready, no text is stored and the conversation is empty: it is what it *)
(* was before when no document was ready before, and the conversation of a   *)
(* previous document is discarded with that document.                       *)
C10_EmptyLoadLeavesNothing ==
    \A s \in Sessions :
        (last.session = s /\ last.doc = "empty") =>
            /\ ~st[s].documents_processed
            /\ st[s].extracted_text = Empty
            /\ st[s].chat_messages = <<>>
            /\ ~last.ready_before => st[s].chat_messages = last.chat_before

C10_Witness ==
    /\ last.op \in {"upload", "load_url"}
    /\ last.doc = "empty"
    /\ last.switched
    /\ last.ready_before
    /\ last.chat_before # <<>>

(* C11  Clear Document leaves no document and no conversation: no text is    *)
(* stored, the document is not ready, no PDF or URL is the active source,    *)
(* and the conversation is empty (so the next turn is rejected).             *)
C11_ClearLeavesNothing ==
    \A s \in Sessions :
        (last.op = "clear" /\ last.session = s) =>
            /\ st[s].extracted_text = Empty
            /\ ~st[s].documents_processed
            /\ st[s].uploaded_pdf = 0
            /\ st[s].web_url = 0
            /\ st[s].chat_messages = <<>>

-----------------------------------------------------------------------------
(* Two browser sessions side by side.  Each runs the same script on its own  *)
(* st.session_state; the inputs are one upload, one URL that answers, one    *)
(* prompt, and a provider that replies or raises in llm.invoke.              *)

SessionsInit == Start(Sessions) /\ fn = FnOff

SessionsNext ==
    \/ \E s \in Sessions, t \in {"PDF Upload", "Web URL"} : SelectSource(s, t)
    \/ \E s \in Sessions : Upload(s, 1)
    \/ \E s \in Sessions : EnterUrl(s, 2)
    \/ \E s \in Sessions : LoadUrl(s, TRUE)
    \/ \E s \in Sessions : ClearDocument(s)
    \/ \E s \in Sessions : NewChat(s)
    \/ \E s \in Sessions, outcome \in {"reply", "invoke_raises"} :
          /\ accepted[s] < MaxSharedTurns
          /\ Submit(s, 1, [outcome |-> outcome, reply |-> 1])

SessionsSpec == SessionsInit /\ [][SessionsNext]_vars

C14_ResetIsEffective ==
    \A s \in Sessions :
        (Turn(s) /\ last.turn = "answered" /\ last.chat_before = <<>>) =>
            /\ Len(st[s].chat_messages) = 2
            /\ st[s].chat_messages[1].type = "human"
            /\ st[s].chat_messages[1].content.body = last.prompt
            /\ st[s].chat_messages[2].type = "ai"
            /\ Called(s) => Len(sent[s]) = 2

(* C15  The ready flag is set exactly when a text is stored, and a turn is   *)
(* accepted exactly when the flag was set.                                   *)
C15_ReadyIffText ==
    \A s \in Sessions :
        /\ st[s].documents_processed <=> st[s].extracted_text # Empty
        /\ Turn(s) => (last.turn # "rejected" <=> last.ready_before)

C15_Witness ==
    /\ last.op = "clear"
    /\ last.ready_before
    /\ ~st[last.session].documents_processed
    /\ st[last.session].extracted_text = Empty

(* C16  The conversation is an append-only log: an accepted turn leaves the  *)
(* conversation it found, followed by its user message and one assistant     *)
(* message, and an interaction that is neither a turn nor a reset leaves the *)
(* conversation as it was.                                                   *)
C16_AppendOnly ==
    \A s \in Sessions :
        /\ (Turn(s) /\ last.turn = "answered") =>
              LET c == st[s].chat_messages
                  n == Len(last.chat_before)
              IN  /\ Len(c) = n + 2
                  /\ SubSeq(c, 1, n) = last.chat_before
                  /\ c[n + 1].type = "human"
                  /\ c[n + 1].content.body = last.prompt
                  /\ c[n + 2].type = "ai"
        /\ (/\ last.session = s
            /\ last.op \notin {"new_chat", "clear"}
            /\ ~last.switched
            /\ last.turn \in {"none", "rejected"})
              => st[s].chat_messages = last.chat_before

(* C17  Turn completion: a turn that waits for the model is eventually       *)
(* completed with an assistant message as the last message of the            *)
(* conversation, and the session is then idle with a document whose text     *)
(* passes the guard of the next turn.                                        *)
C17_TurnCompletes ==
    \A s \in Sessions :
        (pending[s] > 0) ~>
            /\ pending[s] = 0
            /\ st[s].extracted_text # Empty
            /\ st[s].chat_messages # <<>>
            /\ st[s].chat_messages[Len(st[s].chat_messages)].type = "ai"

C17_Witness ==
    /\ last.op = "submit"
    /\ last.provider = "client_raises"
    /\ last.turn = "answered"
    /\ pending[last.session] = 0
    /\ accepted[last.session] = 2
    /\ st[last.session].extracted_text # Empty

(* C18  New Chat frame condition: a click on New Chat empties the            *)
(* conversation and leaves the stored text, the ready flag and the stored    *)
(* source as they were; a turn submitted right after it on a ready document  *)
(* is accepted, and its model call starts with the context message that      *)
(* carries the first CONTEXT_CAP characters of that same text.               *)
C18_NewChatFrame ==
    [][\A s \in Sessions :
          /\ (last'.op = "new_chat" /\ last'.session = s) =>
                /\ st'[s].chat_messages = <<>>
                /\ st'[s].extracted_text = st[s].extracted_text
                /\ st'[s].documents_processed = st[s].documents_processed
                /\ st'[s].uploaded_pdf = st[s].uploaded_pdf
                /\ st'[s].web_url = st[s].web_url
          /\ (/\ last.op = "new_chat" /\ last.session = s
              /\ st[s].documents_processed
              /\ last'.op = "submit" /\ last'.session = s) =>
                /\ last'.turn = "answered"
                /\ st'[s].extracted_text = st[s].extracted_text
                /\ invocations'[s] > invocations[s] =>
                      /\ IsContextMessage(sent'[s][1])
                      /\ sent'[s][1].content.snippet
                            = SliceTo(st[s].extracted_text, CONTEXT_CAP)]_vars

C18_Witness ==
    /\ last.op = "new_chat"
    /\ last.chat_before # <<>>
    /\ st[last.session].chat_messages = <<>>
    /\ st[last.session].documents_processed
    /\ st[last.session].extracted_text.len > CONTEXT_CAP

(* C19  Alternation of visible messages: while no turn of the session waits  *)
(* for the model, the messages the display loop shows alternate user,        *)
(* assistant, user, assistant, ..., from a user message to an assistant      *)
(* message, so their number is even.                                         *)
C19_VisibleAlternate ==
    \A s \in Sessions :
        pending[s] = 0 =>
            LET v == displayed(st[s].chat_messages)
            IN  /\ Len(v) % 2 = 0
                /\ \A i \in 1..Len(v) :
                      v[i].type = IF i % 2 = 1 THEN "human" ELSE "ai"

C19_Witness ==
    /\ pending[1] = 0
    /\ last.op = "submit"
    /\ last.turn = "answered"
    /\ Len(displayed(st[1].chat_messages)) >= 4
    /\ \E i \in 1..Len(st[1].chat_messages) : IsErrorReply(st[1].chat_messages[i])

====
